---- MODULE Spec2Model ----
(***************************************************************************)
(* GitHub device-flow authentication of plynk-io.                          *)
(*                                                                         *)
(* Main process  : electron/ipc/githubHandlers.js (IPC handlers and        *)
(*                 backgroundPoll).                                        *)
(*                                                                         *)
(* Time is counted in ticks of 5 seconds (the poll delay of the code) and  *)
(* is kept per operation as stopwatches: elapsed (since the operation      *)
(* started), sinceReq (since its last token request) and gap (between its  *)
(* last two token requests).  Handling a network answer lets the latency   *)
(* of that answer pass, a timer callback lets the delay of the timer pass. *)
(* The stopwatches are lower bounds of the real durations, reached when    *)
(* everything else takes no time.  No guard reads them.                    *)
(***************************************************************************)
EXTENDS Integers, Sequences, FiniteSets, TLC

\* ---------------------------------------------------------------- bounds
MaxOps == 2
MaxPending == 1
MaxLatency == 1
MaxNone == 1
MaxCalls == 2
MaxQueue == 2
MaxFlight == 1
MaxLen == 3
MaxRegs == 2

\* ------------------------------------------------------ program constants
maxPolls == 180
PollDelay == 1
WallClockLimit == 180

\* ------------------------------------------------------------ input sets
DeviceCodes == {"D1"}
\* a token is a sequence of symbols; the empty sequence is the empty string
Tokens == {<<"tok_abc">>}
NoToken == <<>>
Users == {"alice"}

\* the values a device-flow session may advertise as interval: 5 s, 10 s
Intervals == {1, 2}

\* body of a token-endpoint answer; "fail" is a rejected fetch or a body
\* that does not parse, "none" a body with neither access_token nor error
ErrorCodes == {"authorization_pending", "slow_down", "access_denied"}
TokenResponses ==
    [kind : {"token"}, token : Tokens, error : {""}]
      \cup [kind : {"error"}, token : {NoToken}, error : ErrorCodes]
      \cup [kind : {"none", "fail"}, token : {NoToken}, error : {""}]

\* response.status
HttpStatuses == {200, 429}

\* an answer of the token endpoint: status and body
HttpResponses == [status : HttpStatuses, body : TokenResponses]

\* answer of GitHubAuthService.validateToken
ValidateResponses ==
    [ok : {TRUE}, user : Users] \cup [ok : {FALSE}, user : {""}]

VARIABLES
    interval,        \* the interval the provider advertises in its sessions
    mainWindow,      \* what getMainWindow() returns: TRUE a window, FALSE null
    currentPolling,  \* index into ops of the current operation, 0 for null
    ops,             \* every {deviceCode, stop} object created, with the
                     \* closure of its backgroundPoll call
    evQ,             \* messages sent with webContents.send, not yet received
    storage,         \* localStorage item 'github_auth_token'
    st,              \* GitHubAuthState of the status-based store
    dialog,          \* deviceDialog of the status-based store
    isConnectingRef, \* isConnectingRef.current
    calls,           \* the calls of connectGitHub and checkTokenValidity made
    abandoned,       \* cancelGitHubAuth or disconnect was called while a call of
                     \* connectGitHub was running, and connectGitHub has not been
                     \* called since
    est,             \* GitHubAuthState of the event-based store
    attempts,        \* the calls of startAuthentication made
    cmdQ,            \* IPC calls of the renderer the main process has not yet received
    uiCount,         \* per operation, the events its lifecycle gave the listeners
    cancelled,       \* cancelAuthentication was called and startAuthentication
                     \* has not been called since
    loggedOut,       \* logout was called and startAuthentication has not been
                     \* called since
    activePolling,   \* GitHubAuthService.activePolling of the renderer poller
    rops,            \* every pollForToken call made, with its closure and promise
    handlersRegistered, \* the latch of registerGitHubHandlers
    handlers,        \* per channel, the handlers ipcMain.handle was given
    regPc,           \* position of the running registerGitHubHandlers call: 0 no
                     \* call runs, k the k-th ipcMain.handle comes next
    regCalls,        \* calls of registerGitHubHandlers made, counted up to MaxRegs
    io               \* the token store's calls: the token the last storeToken wrote
                     \* (none after removeToken), what the last getStoredToken
                     \* returned, and the last call made

envVars == <<interval, mainWindow>>
mainVars == <<currentPolling, ops, evQ>>
storeVars == <<st, dialog, isConnectingRef, calls, abandoned>>
uiVars == <<est, attempts, cmdQ, uiCount, cancelled, loggedOut>>
pollVars == <<activePolling, rops>>
regVars == <<handlersRegistered, handlers, regPc, regCalls>>
vars == <<envVars, mainVars, storage, storeVars, uiVars, pollVars, io, regVars>>

OpIds == 1..Len(ops)

TerminalEvents == {"github-auth-success", "github-auth-error", "github-auth-timeout"}

\* ------------------------------------------------------- backgroundPoll

\* mainWindow.webContents.send(channel, payload), guarded by if (mainWindow)
Send(o, ev) ==
    IF o.mainWindow THEN [o EXCEPT !.events = Append(@, ev)] ELSE o

AuthEvent(type, token, user, error) ==
    [type |-> type, token |-> token, user |-> user, error |-> error]

\* the new { deviceCode, stop: false } object and the locals of backgroundPoll
NewOperation(dc, mw) ==
    [deviceCode |-> dc, stop |-> FALSE, pollCount |-> 0, mainWindow |-> mw,
     pc |-> "start", tok |-> NoToken,
     events |-> <<>>, reqs |-> 0, pend |-> 0, lastResp |-> "", valid |-> FALSE,
     status |-> 0,
     elapsed |-> 0, sinceReq |-> 0, gap |-> -1]

\* d ticks pass for operation o
Pass(o, d) == [o EXCEPT !.elapsed = @ + d, !.sinceReq = @ + d]

\* the ceiling test written pollCount >= maxPolls
Poll_OffByOne(o) ==
    IF o.stop
      THEN [o EXCEPT !.pc = "done"]
      ELSE LET c == o.pollCount + 1 IN
           IF c >= maxPolls
             THEN [Send(o, AuthEvent("github-auth-timeout", NoToken, "", ""))
                     EXCEPT !.pollCount = c, !.pc = "done"]
             ELSE [o EXCEPT !.pollCount = c, !.pc = "fetch", !.reqs = @ + 1,
                            !.gap = IF o.reqs = 0 THEN -1 ELSE o.sinceReq,
                            !.sinceReq = 0]

\* poll(), from its entry to the first await or return
Poll(o) ==
    IF o.stop
      THEN [o EXCEPT !.pc = "done"]
      ELSE LET c == o.pollCount + 1 IN
           IF c > maxPolls
             THEN [Send(o, AuthEvent("github-auth-timeout", NoToken, "", ""))
                     EXCEPT !.pollCount = c, !.pc = "done"]
             ELSE [o EXCEPT !.pollCount = c, !.pc = "fetch", !.reqs = @ + 1,
                            !.gap = IF o.reqs = 0 THEN -1 ELSE o.sinceReq,
                            !.sinceReq = 0]

\* the callback of setTimeout(..., 5000)
TimerCallback(o) ==
    IF ~o.stop THEN Poll(o) ELSE [o EXCEPT !.pc = "done"]

\* the error branch without its return: the timer is armed all the same
OnTokenResponse_NoReturn(o, r) ==
    LET o1 == [o EXCEPT !.lastResp = IF r.kind = "error" THEN r.error ELSE r.kind,
                        !.pend = IF r.kind = "error" /\ r.error = "authorization_pending"
                                   THEN @ + 1 ELSE @]
    IN  CASE r.kind = "fail" ->
               [Send(o1, AuthEvent("github-auth-error", NoToken, "", "network"))
                  EXCEPT !.pc = "done"]
          [] r.kind = "token" ->
               [o1 EXCEPT !.pc = "validate", !.tok = r.token]
          [] r.kind = "error" /\ r.error # "authorization_pending" ->
               [Send(o1, AuthEvent("github-auth-error", NoToken, "", r.error))
                  EXCEPT !.pc = "timer"]
          [] OTHER ->
               [o1 EXCEPT !.pc = "timer"]

\* poll(), from the answer of the token request to the next await or return
OnTokenResponse(o, r) ==
    LET o1 == [o EXCEPT !.lastResp = IF r.kind = "error" THEN r.error ELSE r.kind,
                        !.pend = IF r.kind = "error" /\ r.error = "authorization_pending"
                                   THEN @ + 1 ELSE @]
    IN  CASE r.kind = "fail" ->
               [Send(o1, AuthEvent("github-auth-error", NoToken, "", "network"))
                  EXCEPT !.pc = "done"]
          [] r.kind = "token" ->
               [o1 EXCEPT !.pc = "validate", !.tok = r.token]
          [] r.kind = "error" /\ r.error # "authorization_pending" ->
               [Send(o1, AuthEvent("github-auth-error", NoToken, "", r.error))
                  EXCEPT !.pc = "done"]
          [] OTHER ->
               [o1 EXCEPT !.pc = "timer"]

\* the token branch without its return: the timer is armed after the success
OnValidateResponse_NoReturn(o, v) ==
    IF v.ok
      THEN [Send(o, AuthEvent("github-auth-success", o.tok, v.user, ""))
              EXCEPT !.pc = "timer", !.valid = TRUE]
      ELSE [Send(o, AuthEvent("github-auth-error", NoToken, "", "Token validation failed"))
              EXCEPT !.pc = "done"]

\* poll(), from the answer of validateToken to its return
OnValidateResponse(o, v) ==
    IF v.ok
      THEN [Send(o, AuthEvent("github-auth-success", o.tok, v.user, ""))
              EXCEPT !.pc = "done", !.valid = TRUE]
      ELSE [Send(o, AuthEvent("github-auth-error", NoToken, "", "Token validation failed"))
              EXCEPT !.pc = "done"]

\* the messages o2 has sent that o1 had not, tagged with the operation
NewEvents(i, o1, o2) ==
    [k \in 1..(Len(o2.events) - Len(o1.events)) |->
        [op |-> i, ev |-> o2.events[Len(o1.events) + k]]]

\* ------------------------------------------------------- IPC handlers

\* the previous operation is left running
StopCurrent_Skip(os, cur) == os

\* if (currentPolling) currentPolling.stop = true
StopCurrent(os, cur) ==
    IF cur # 0 THEN [os EXCEPT ![cur].stop = TRUE] ELSE os

\* ipcMain.handle('github:start-background-polling')
StartBackgroundPolling(dc) ==
    /\ Len(ops) < MaxOps
    /\ LET i == Len(ops) + 1
           o == Poll(NewOperation(dc, mainWindow))
       IN  /\ ops' = Append(StopCurrent(ops, currentPolling), o)
           /\ currentPolling' = i
           /\ evQ' = evQ \o NewEvents(i, NewOperation(dc, mainWindow), o)
    /\ UNCHANGED envVars

\* ipcMain.handle('github:stop-polling')
StopPolling ==
    /\ ops' = StopCurrent(ops, currentPolling)
    /\ currentPolling' = 0
    /\ UNCHANGED <<envVars, evQ>>

\* the token request of operation i is answered after d ticks
TokenResponse(i, r, d) ==
    /\ ops[i].pc = "fetch"
    /\ LET o == OnTokenResponse(Pass(ops[i], d), r)
       IN  /\ ops' = [ops EXCEPT ![i] = o]
           /\ evQ' = evQ \o NewEvents(i, ops[i], o)
    /\ UNCHANGED <<envVars, currentPolling>>

\* validateToken of operation i is answered after d ticks
ValidateResponse(i, v, d) ==
    /\ ops[i].pc = "validate"
    /\ LET o == OnValidateResponse(Pass(ops[i], d), v)
       IN  /\ ops' = [ops EXCEPT ![i] = o]
           /\ evQ' = evQ \o NewEvents(i, ops[i], o)
    /\ UNCHANGED <<envVars, currentPolling>>

\* the 5 second timer of operation i fires
PollTimer(i) ==
    /\ ops[i].pc = "timer"
    /\ LET o == TimerCallback(Pass(ops[i], PollDelay))
       IN  /\ ops' = [ops EXCEPT ![i] = o]
           /\ evQ' = evQ \o NewEvents(i, ops[i], o)
    /\ UNCHANGED <<envVars, currentPolling>>

\* the token request of operation i is answered with a status and a body;
\* poll() reads the body and never the status
HttpResponse(i, h) ==
    /\ ops[i].pc = "fetch"
    /\ LET o == [OnTokenResponse(ops[i], h.body) EXCEPT !.status = h.status]
       IN  /\ ops' = [ops EXCEPT ![i] = o]
           /\ evQ' = evQ \o NewEvents(i, ops[i], o)
    /\ UNCHANGED <<envVars, currentPolling>>

\* ------------------------------------------------ registerGitHubHandlers
\* The function is synchronous: once a call has started, nothing else runs in
\* the main process before it returns.  ipcMain is taken as an object that
\* records every handler it is given.

\* the channels, in the order of the ipcMain.handle calls
Channels ==
    << "github:start-device-flow", "github:start-background-polling",
       "github:stop-polling", "github:poll-for-token",
       "github:validate-token", "github:create-issue" >>

ChannelNames == {Channels[k] : k \in DOMAIN Channels}

\* before the first call of registerGitHubHandlers
Unregistered ==
    /\ handlersRegistered = FALSE
    /\ handlers = [c \in ChannelNames |-> 0]
    /\ regPc = 0
    /\ regCalls = 0

\* after the call made when the application starts
HandlersReady ==
    /\ handlersRegistered = TRUE
    /\ handlers = [c \in ChannelNames |-> 1]
    /\ regPc = 0
    /\ regCalls = 1

\* ipcMain.handle(channel, listener)
handle(h, channel) == [h EXCEPT ![channel] = @ + 1]

\* a variant in which the latch is never looked at
AlreadyRegistered_Ignored(latch) == FALSE

\* if (handlersRegistered) return
AlreadyRegistered(latch) == latch

\* a call of registerGitHubHandlers begins
RegisterCall ==
    /\ regPc = 0
    /\ regCalls' = IF regCalls < MaxRegs THEN regCalls + 1 ELSE regCalls
    /\ regPc' = IF AlreadyRegistered(handlersRegistered) THEN 0 ELSE 1
    /\ UNCHANGED <<handlersRegistered, handlers>>

\* its next ipcMain.handle
RegisterChannel ==
    /\ regPc \in DOMAIN Channels
    /\ handlers' = handle(handlers, Channels[regPc])
    /\ regPc' = regPc + 1
    /\ UNCHANGED <<handlersRegistered, regCalls>>

\* handlersRegistered = true, and the call returns
RegisterDone ==
    /\ regPc = Len(Channels) + 1
    /\ handlersRegistered' = TRUE
    /\ regPc' = 0
    /\ UNCHANGED <<handlers, regCalls>>

\* ipcRenderer.invoke(channel) reaches a handler
Invocable(channel) == regPc = 0 /\ handlers[channel] > 0

\* ------------------------------------------------------- token store
\* (status-based auth store, unnamed/part_000)

\* the text '_plynk_salt', one symbol: no proper prefix of it is a suffix of
\* it, so an occurrence in token + salt lies within the token or is the salt
Salt == "_plynk_salt"

\* an optional string: null, or a string
None == [some |-> FALSE, v |-> <<>>]
Some(t) == [some |-> TRUE, v |-> t]
\* !x of JavaScript for an optional string
Falsy(x) == ~x.some \/ x.v = <<>>

\* an item of localStorage: absent, the base64 text of a string, or a text
\* that is no base64
NoItem == [enc |-> "none", text |-> <<>>]

\* btoa(token + '_plynk_salt')
encryptToken(token) == [enc |-> "b64", text |-> Append(token, Salt)]

RECURSIVE ReplaceFirst(_, _)
\* String.prototype.replace(x, ''): the first occurrence of x is removed
ReplaceFirst(str, x) ==
    IF str = <<>> THEN <<>>
    ELSE IF Head(str) = x THEN Tail(str)
    ELSE <<Head(str)>> \o ReplaceFirst(Tail(str), x)

\* atob(encrypted).replace('_plynk_salt', ''), null when atob throws
decryptToken(encrypted) ==
    IF encrypted.enc = "b64" THEN Some(ReplaceFirst(encrypted.text, Salt)) ELSE None

\* encrypted ? decryptToken(encrypted) : null
getStoredToken(item) ==
    IF item.enc = "none" \/ item.text = <<>> THEN None ELSE decryptToken(item)

\* the characters of a token: one that is no part of the salt, and the salt
Alphabet == {"a", Salt}

\* the strings of at most MaxLen characters
TokenStrings == UNION {[1..n -> Alphabet] : n \in 0..MaxLen}

\* what localStorage may hold: nothing, the base64 text of any string, or a
\* text that atob rejects
StoredItems ==
    {NoItem} \cup [enc : {"b64"}, text : TokenStrings]
             \cup {[enc |-> "bad", text |-> <<"a">>]}

NoCall == [written |-> None, read |-> None, op |-> "none"]

CodecInit == io = NoCall

\* storeToken(t)
storeToken(t) ==
    /\ storage' = encryptToken(t)
    /\ io' = [written |-> Some(t), read |-> io.read, op |-> "store"]

\* removeToken()
removeToken ==
    /\ storage' = NoItem
    /\ io' = [written |-> None, read |-> io.read, op |-> "remove"]

\* a call of getStoredToken()
ReadStoredToken ==
    /\ io' = [io EXCEPT !.read = getStoredToken(storage), !.op = "get"]
    /\ UNCHANGED storage

\* ------------------------------------------------------- status-based store

\* answers of the IPC calls githubStartDeviceFlow, githubPollForToken and
\* githubValidateToken: {success: true, ...}, {success: false, error},
\* undefined (no preload API), or a rejected promise
DeviceResults ==
    [kind : {"ok", "undefined", "throw"}, error : {""}]
      \cup [kind : {"error"}, error : {"device flow failed"}]
PollResults ==
    [kind : {"ok"}, token : Tokens, error : {""}]
      \cup [kind : {"undefined", "throw"}, token : {NoToken}, error : {""}]
      \cup [kind : {"error"}, token : {NoToken}, error : {"authorization_pending"}]
ValidateResults ==
    [kind : {"ok"}, user : Users, error : {""}]
      \cup [kind : {"undefined", "throw"}, user : {""}, error : {""}]
      \cup [kind : {"error"}, user : {""}, error : {"Invalid token"}]

\* error.message of the Error thrown in connectGitHub
FailureMessage(r, default) ==
    CASE r.kind = "error" -> r.error
      [] r.kind = "throw" -> "ipc failure"
      [] OTHER -> default

ClosedDialog ==
    [open |-> FALSE, userCode |-> "", isPolling |-> FALSE,
     isConnected |-> FALSE, connectedUser |-> ""]

\* one pending call of connectGitHub or checkTokenValidity
NewCall(kind, pc, user) ==
    [kind |-> kind, pc |-> pc, tok |-> NoToken, user |-> user, toast |-> ""]

StoreInit ==
    /\ st = [isConnected |-> FALSE, isLoading |-> TRUE, status |-> "loading",
             user |-> "", error |-> ""]
    /\ dialog = ClosedDialog
    /\ isConnectingRef = FALSE
    /\ calls = <<>>
    /\ abandoned = FALSE

\* a call of connectGitHub has not returned yet
Connecting == \E c \in DOMAIN calls : calls[c].kind = "connect" /\ calls[c].pc # "done"

\* cancelGitHubAuth
cancelGitHubAuth ==
    /\ isConnectingRef' = FALSE
    /\ dialog' = ClosedDialog
    /\ st' = [st EXCEPT !.isLoading = FALSE, !.error = ""]
    /\ abandoned' = (abandoned \/ Connecting)
    /\ UNCHANGED <<calls, storage>>

\* disconnect
disconnect ==
    /\ storage' = NoItem
    /\ st' = [isConnected |-> FALSE, isLoading |-> FALSE, status |-> "disconnected",
              user |-> "", error |-> ""]
    /\ abandoned' = (abandoned \/ Connecting)
    /\ UNCHANGED <<dialog, isConnectingRef, calls>>

\* checkTokenValidity when getStoredToken() gives no token
NoTokenState(s) ==
    [s EXCEPT !.status = "disconnected", !.isLoading = FALSE, !.isConnected = FALSE]

\* checkTokenValidity after the answer of githubValidateToken: the new state
ValidityState(s, r) ==
    CASE r.kind = "ok" ->
           [s EXCEPT !.status = "connected", !.isConnected = TRUE,
                     !.isLoading = FALSE, !.user = r.user, !.error = ""]
      [] r.kind = "throw" ->
           [s EXCEPT !.status = "invalid", !.isConnected = FALSE,
                     !.isLoading = FALSE, !.error = "Failed to validate token"]
      [] OTHER ->
           [s EXCEPT !.status = "invalid", !.isConnected = FALSE,
                     !.isLoading = FALSE, !.user = "",
                     !.error = IF r.kind = "error" THEN r.error
                               ELSE "Token expired or invalid"]

\* checkTokenValidity after the answer of githubValidateToken: the storage
ValidityStorage(item, r) ==
    IF r.kind \in {"ok", "throw"} THEN item ELSE NoItem

\* the end of connectGitHub without its finally block: the latch stays set
ConnectDone_KeepsLatch(c) ==
    /\ dialog' = [dialog EXCEPT !.isPolling = FALSE, !.isConnected = TRUE,
                                !.connectedUser = calls[c].user]
    /\ calls' = [calls EXCEPT ![c].pc = "done", ![c].toast = "GitHub Connected"]
    /\ UNCHANGED <<isConnectingRef, abandoned>>

\* connectGitHub after checkTokenValidity has returned: success dialog and toast
ConnectDone(c) ==
    /\ dialog' = [dialog EXCEPT !.isPolling = FALSE, !.isConnected = TRUE,
                                !.connectedUser = calls[c].user]
    /\ isConnectingRef' = FALSE
    /\ calls' = [calls EXCEPT ![c].pc = "done", ![c].toast = "GitHub Connected"]
    /\ UNCHANGED abandoned

\* the catch block that records the message and leaves isLoading set
ConnectFailed_KeepsLoading(c, message) ==
    /\ dialog' = [dialog EXCEPT !.isPolling = FALSE, !.isConnected = FALSE,
                                !.connectedUser = ""]
    /\ st' = [st EXCEPT !.error = message]
    /\ isConnectingRef' = FALSE
    /\ calls' = [calls EXCEPT ![c].pc = "done", ![c].toast = "GitHub Connection Failed"]
    /\ UNCHANGED <<storage, abandoned>>

\* the catch and finally blocks of connectGitHub
ConnectFailed(c, message) ==
    /\ dialog' = [dialog EXCEPT !.isPolling = FALSE, !.isConnected = FALSE,
                                !.connectedUser = ""]
    /\ st' = [st EXCEPT !.isLoading = FALSE, !.error = message]
    /\ isConnectingRef' = FALSE
    /\ calls' = [calls EXCEPT ![c].pc = "done", ![c].toast = "GitHub Connection Failed"]
    /\ UNCHANGED <<storage, abandoned>>

\* the guard of connectGitHub
Rejected(ref) == ref

\* connectGitHub, to the await of githubStartDeviceFlow
connectGitHub ==
    IF Rejected(isConnectingRef)
      THEN abandoned' = FALSE /\ UNCHANGED <<st, dialog, isConnectingRef, calls, storage>>
      ELSE /\ Len(calls) < MaxCalls
           /\ abandoned' = FALSE
           /\ isConnectingRef' = TRUE
           /\ st' = [st EXCEPT !.isLoading = TRUE, !.error = ""]
           /\ calls' = Append(calls, NewCall("connect", "device", st.user))
           /\ UNCHANGED <<dialog, storage>>

\* connectGitHub, from the answer of githubStartDeviceFlow to the await of
\* githubPollForToken
DeviceFlowAnswer(c, r) ==
    /\ calls[c].kind = "connect" /\ calls[c].pc = "device"
    /\ IF r.kind = "ok"
         THEN /\ dialog' = [open |-> TRUE, userCode |-> "ABCD-1234", isPolling |-> TRUE,
                            isConnected |-> FALSE, connectedUser |-> ""]
              /\ calls' = [calls EXCEPT ![c].pc = "poll"]
              /\ UNCHANGED <<st, isConnectingRef, storage, abandoned>>
         ELSE ConnectFailed(c, FailureMessage(r, "Failed to start OAuth flow"))

\* connectGitHub, from the answer of githubPollForToken to the await inside
\* checkTokenValidity (or to its end when the stored token reads back empty)
PollAnswer(c, r) ==
    /\ calls[c].kind = "connect" /\ calls[c].pc = "poll"
    /\ IF r.kind = "ok"
         THEN LET item == encryptToken(r.token)
                  token == getStoredToken(item)
              IN  /\ storage' = item
                  /\ IF Falsy(token)
                       THEN /\ st' = NoTokenState(st)
                            /\ ConnectDone(c)
                       ELSE /\ calls' = [calls EXCEPT ![c].pc = "validate",
                                                      ![c].tok = token.v]
                            /\ UNCHANGED <<st, dialog, isConnectingRef, abandoned>>
         ELSE ConnectFailed(c, FailureMessage(r, "Failed to get access token"))

\* checkTokenValidity, called on mount or through the context, to its await
checkTokenValidity ==
    LET token == getStoredToken(storage)
    IN  IF Falsy(token)
          THEN /\ st' = NoTokenState(st)
               /\ UNCHANGED <<dialog, isConnectingRef, calls, storage, abandoned>>
          ELSE /\ Len(calls) < MaxCalls
               /\ calls' = Append(calls, [NewCall("check", "validate", st.user)
                                            EXCEPT !.tok = token.v])
               /\ UNCHANGED <<st, dialog, isConnectingRef, storage, abandoned>>

\* checkTokenValidity from the answer of githubValidateToken to its end, and
\* the rest of connectGitHub when connectGitHub awaited it
ValidateAnswer(c, r) ==
    /\ calls[c].pc = "validate"
    /\ st' = ValidityState(st, r)
    /\ storage' = ValidityStorage(storage, r)
    /\ IF calls[c].kind = "connect"
         THEN ConnectDone(c)
         ELSE /\ calls' = [calls EXCEPT ![c].pc = "done"]
              /\ UNCHANGED <<dialog, isConnectingRef, abandoned>>

\* onOpenChange(false) of the device dialog
closeDialog ==
    IF dialog.isConnected
      THEN /\ dialog' = [dialog EXCEPT !.open = FALSE]
           /\ UNCHANGED <<st, isConnectingRef, calls, storage, abandoned>>
      ELSE cancelGitHubAuth

\* ------------------------------------------------------- event-based store
\* (unnamed/part_001 with the GitHubAuthService of unnamed/part_003)

UIInit ==
    /\ est = [isAuthenticated |-> FALSE, user |-> "", token |-> NoToken,
              isConnecting |-> FALSE, deviceFlow |-> "", error |-> ""]
    /\ attempts = <<>>
    /\ cmdQ = <<>>
    /\ uiCount = <<>>
    /\ cancelled = FALSE
    /\ loggedOut = FALSE

\* the success handler that leaves the connecting flag as it was
handleAuthSuccess_StillConnecting(s, data) ==
    [s EXCEPT !.isAuthenticated = TRUE, !.user = data.user, !.token = data.token,
              !.deviceFlow = "", !.error = ""]

\* handleAuthSuccess: the new state
handleAuthSuccess(s, data) ==
    [s EXCEPT !.isAuthenticated = TRUE, !.user = data.user, !.token = data.token,
              !.isConnecting = FALSE, !.deviceFlow = "", !.error = ""]

\* handleAuthError
handleAuthError(s, data) ==
    [s EXCEPT !.isConnecting = FALSE, !.error = data.error]

\* handleAuthTimeout
handleAuthTimeout(s) ==
    [s EXCEPT !.isConnecting = FALSE,
              !.error = "Authentication timeout - please try again"]

\* handleAuthCancelled
handleAuthCancelled(s) ==
    [s EXCEPT !.isConnecting = FALSE, !.deviceFlow = "", !.error = ""]

\* GitHubAuthService.emit to the listeners the store has registered
emit(s, event, data) ==
    CASE event = "github-auth-success" -> handleAuthSuccess(s, data)
      [] event = "github-auth-error" -> handleAuthError(s, data)
      [] event = "github-auth-timeout" -> handleAuthTimeout(s)
      [] event = "github-auth-cancelled" -> handleAuthCancelled(s)
      [] OTHER -> s

\* stopPolling without its invoke: only the event is emitted
stopPollingInvoke_None(q) == q

\* GitHubAuthService.stopPolling: the IPC call made
stopPollingInvoke(q) == Append(q, [cmd |-> "stop", deviceCode |-> ""])

\* GitHubAuthService.stopPolling: the event emitted
stopPollingEmit(s) == emit(s, "github-auth-cancelled", [error |-> ""])

\* startAuthentication, to the await of initiateDeviceFlow
startAuthentication ==
    /\ Len(attempts) < MaxOps
    /\ est' = [est EXCEPT !.isConnecting = TRUE, !.error = ""]
    /\ attempts' = Append(attempts, [pc |-> "device"])
    /\ cancelled' = FALSE
    /\ loggedOut' = FALSE
    /\ UNCHANGED <<cmdQ, uiCount, storage>>

\* startAuthentication, from the answer of initiateDeviceFlow to its end
InitiateAnswer(a, r, dc) ==
    /\ attempts[a].pc = "device"
    /\ attempts' = [attempts EXCEPT ![a].pc = "done"]
    /\ IF r.kind = "ok"
         THEN /\ est' = [est EXCEPT !.deviceFlow = dc]
              /\ cmdQ' = Append(cmdQ, [cmd |-> "start", deviceCode |-> dc])
         ELSE /\ est' = [est EXCEPT !.isConnecting = FALSE,
                           !.error = FailureMessage(r, "Cannot read properties of undefined")]
              /\ UNCHANGED cmdQ
    /\ UNCHANGED <<uiCount, cancelled, loggedOut, storage>>

\* cancelAuthentication
cancelAuthentication ==
    /\ Len(cmdQ) < MaxQueue
    /\ cmdQ' = stopPollingInvoke(cmdQ)
    /\ est' = [stopPollingEmit(est) EXCEPT !.isConnecting = FALSE,
                                          !.deviceFlow = "", !.error = ""]
    /\ cancelled' = TRUE
    /\ UNCHANGED <<attempts, uiCount, loggedOut, storage>>

\* logout
logout ==
    /\ Len(cmdQ) < MaxQueue
    /\ cmdQ' = stopPollingInvoke(cmdQ)
    /\ storage' = NoItem
    /\ est' = [isAuthenticated |-> FALSE, user |-> "", token |-> NoToken,
               isConnecting |-> FALSE, deviceFlow |-> "", error |-> ""]
    /\ loggedOut' = TRUE
    /\ UNCHANGED <<attempts, uiCount, cancelled>>

\* clearError
clearError ==
    /\ est' = [est EXCEPT !.error = ""]
    /\ UNCHANGED <<attempts, cmdQ, uiCount, cancelled, loggedOut, storage>>

\* the main process receives the next IPC call of the renderer; uiCount
\* counts the github-auth-cancelled of the stopPolling that sent a stop
\* for the operation the stop ends
MainReceive ==
    /\ cmdQ # <<>>
    /\ cmdQ' = Tail(cmdQ)
    /\ IF Head(cmdQ).cmd = "start"
         THEN /\ StartBackgroundPolling(Head(cmdQ).deviceCode)
              /\ uiCount' = Append(uiCount, 0)
         ELSE /\ StopPolling
              /\ uiCount' = IF currentPolling # 0
                              THEN [uiCount EXCEPT ![currentPolling] = @ + 1]
                              ELSE uiCount
    /\ UNCHANGED <<est, attempts, cancelled, loggedOut, storage>>

\* the renderer receives the next message of the main process: the listener
\* set up by GitHubAuthService.initialize emits it to the store
RendererReceive ==
    /\ evQ # <<>>
    /\ evQ' = Tail(evQ)
    /\ est' = emit(est, Head(evQ).ev.type, Head(evQ).ev)
    /\ storage' = IF Head(evQ).ev.type = "github-auth-success"
                    THEN encryptToken(Head(evQ).ev.token) ELSE storage
    /\ uiCount' = [uiCount EXCEPT ![Head(evQ).op] = @ + 1]
    /\ UNCHANGED <<envVars, currentPolling, ops, attempts, cmdQ, cancelled, loggedOut>>

\* ------------------------------------------------------- renderer poller
\* (GitHubAuthService.pollForToken and stopPolling of unnamed/part_004)
\*
\* The interval timer of a call is live exactly while activePolling.intervalId
\* is that call: clearInterval is only ever applied to the recorded id.  The
\* 15 minute timer of a call whose interval is live fires after 179 or 180
\* firings of the interval (both are due at 900 s); the one of a call whose
\* interval was cleared fires at any later moment.

RateLimitMessage == "Too many requests to GitHub. Please wait a few minutes and try again."

\* activePolling = {}
NoPolling == [intervalId |-> 0, deviceCode |-> ""]

PollInit ==
    /\ activePolling = NoPolling
    /\ rops = <<>>

\* the closure of one pollForToken call and the promise it returned
NewPolling(dc) ==
    [deviceCode |-> dc, pollCount |-> 0, promise |-> "pending", token |-> NoToken,
     reason |-> "", flight |-> 0, reqs |-> 0, pend |-> 0, timer |-> TRUE,
     ticks |-> 0]

\* stopPolling(): clearInterval of the recorded id, both fields undefined
stopPolling(ap) == NoPolling

\* resolve(token); settling a settled promise does nothing
resolve(o, token) ==
    IF o.promise = "pending"
      THEN [o EXCEPT !.promise = "resolved", !.token = token] ELSE o

\* reject(new Error(message))
reject(o, message) ==
    IF o.promise = "pending"
      THEN [o EXCEPT !.promise = "rejected", !.reason = message] ELSE o

\* poll() of pollForToken, from its entry to the await of fetch or its return
RendererPoll(ap, o) ==
    IF ap.deviceCode # o.deviceCode
      THEN [ap |-> ap, o |-> o]
      ELSE LET c == o.pollCount + 1 IN
           IF c > maxPolls
             THEN [ap |-> stopPolling(ap),
                   o  |-> reject([o EXCEPT !.pollCount = c],
                            "Authorization timeout - exceeded maximum polling attempts")]
             ELSE [ap |-> ap,
                   o  |-> [o EXCEPT !.pollCount = c, !.flight = @ + 1, !.reqs = @ + 1]]

\* the 429 branch without its stopPolling(): the interval stays live
RendererAnswer_NoStop(ap, o, h) ==
    LET o1 == [o EXCEPT !.flight = @ - 1]
        r == h.body
    IN  CASE h.status = 429 ->
               [ap |-> ap,
                o  |-> reject(o1, RateLimitMessage)]
          [] h.status # 429 /\ r.kind = "fail" ->
               [ap |-> stopPolling(ap), o |-> reject(o1, "network")]
          [] h.status # 429 /\ r.kind = "token" ->
               [ap |-> stopPolling(ap), o |-> resolve(o1, r.token)]
          [] h.status # 429 /\ r.kind = "error" /\ r.error = "slow_down" ->
               [ap |-> stopPolling(ap),
                o  |-> reject(o1, "Polling too frequently. Please wait and try again.")]
          [] h.status # 429 /\ r.kind = "error"
               /\ r.error \notin {"authorization_pending", "slow_down"} ->
               [ap |-> stopPolling(ap), o |-> reject(o1, "Authorization failed")]
          [] OTHER ->
               [ap |-> ap, o |-> [o1 EXCEPT !.pend = @ + 1]]

\* poll() of pollForToken, from the answer of fetch to its return; a body of
\* kind "fail" is a rejected fetch (status 200) or a body that does not parse
RendererAnswer(ap, o, h) ==
    LET o1 == [o EXCEPT !.flight = @ - 1]
        r == h.body
    IN  CASE h.status = 429 ->
               [ap |-> stopPolling(ap),
                o  |-> reject(o1, RateLimitMessage)]
          [] h.status # 429 /\ r.kind = "fail" ->
               [ap |-> stopPolling(ap), o |-> reject(o1, "network")]
          [] h.status # 429 /\ r.kind = "token" ->
               [ap |-> stopPolling(ap), o |-> resolve(o1, r.token)]
          [] h.status # 429 /\ r.kind = "error" /\ r.error = "slow_down" ->
               [ap |-> stopPolling(ap),
                o  |-> reject(o1, "Polling too frequently. Please wait and try again.")]
          [] h.status # 429 /\ r.kind = "error"
               /\ r.error \notin {"authorization_pending", "slow_down"} ->
               [ap |-> stopPolling(ap), o |-> reject(o1, "Authorization failed")]
          [] OTHER ->
               [ap |-> ap, o |-> [o1 EXCEPT !.pend = @ + 1]]

\* pollForToken(dc), to the return of the promise
pollForToken(dc) ==
    /\ Len(rops) < MaxOps
    /\ LET i == Len(rops) + 1
           p == RendererPoll([intervalId |-> i, deviceCode |-> dc], NewPolling(dc))
       IN  /\ activePolling' = p.ap
           /\ rops' = Append(rops, p.o)

\* stopPolling() called by the user of the service
CallStopPolling ==
    /\ activePolling' = stopPolling(activePolling)
    /\ UNCHANGED rops

\* the interval timer of call i fires
IntervalTick(i) ==
    /\ activePolling.intervalId = i
    /\ LET p == RendererPoll(activePolling, [rops[i] EXCEPT !.ticks = @ + 1])
       IN  /\ activePolling' = p.ap
           /\ rops' = [rops EXCEPT ![i] = p.o]

\* a token request of call i is answered
FetchAnswer(i, h) ==
    /\ rops[i].flight > 0
    /\ LET p == RendererAnswer(activePolling, rops[i], h)
       IN  /\ activePolling' = p.ap
           /\ rops' = [rops EXCEPT ![i] = p.o]

\* the 15 minute timer of call i fires
OverallTimeout(i) ==
    /\ rops[i].timer
    /\ activePolling.intervalId # i \/ rops[i].ticks >= WallClockLimit - 1
    /\ IF activePolling.deviceCode = rops[i].deviceCode
         THEN /\ activePolling' = stopPolling(activePolling)
              /\ rops' = [rops EXCEPT ![i] =
                            reject([@ EXCEPT !.timer = FALSE], "Authorization timeout")]
         ELSE /\ rops' = [rops EXCEPT ![i].timer = FALSE]
              /\ UNCHANGED activePolling

\* ------------------------------------------------ renderer poller over IPC
\* (GitHubAuthService.pollForToken of src/services/githubAuth.ts, which asks
\* the main process for one token check per poll; its entry, its interval,
\* its 15 minute timer and stopPolling are those of the poller above)

\* ipcMain.handle('github:poll-for-token'): the result for the provider's
\* answer r
PollForTokenHandler(r) ==
    CASE r.kind = "token" -> [kind |-> "result", success |-> TRUE, token |-> r.token, error |-> ""]
      [] r.kind = "error" -> [kind |-> "result", success |-> FALSE, token |-> NoToken, error |-> r.error]
      [] r.kind = "fail" -> [kind |-> "result", success |-> FALSE, token |-> NoToken, error |-> "network"]
      [] OTHER -> [kind |-> "result", success |-> FALSE, token |-> NoToken, error |-> "No token received"]

\* what window.electron.githubPollForToken gives: a result of the handler, or
\* a rejection of the IPC call
IpcResults ==
    {PollForTokenHandler(r) : r \in TokenResponses}
        \cup {[kind |-> "throw", success |-> FALSE, token |-> NoToken, error |-> "ipc failure"]}

\* poll() of the IPC variant, from the answer of githubPollForToken to its
\* return
IpcAnswer(ap, o, result) ==
    LET o1 == [o EXCEPT !.flight = @ - 1]
    IN  CASE result.kind = "throw" ->
               [ap |-> stopPolling(ap), o |-> reject(o1, result.error)]
          [] result.kind # "throw" /\ result.success /\ result.token # NoToken ->
               [ap |-> stopPolling(ap), o |-> resolve(o1, result.token)]
          [] result.kind # "throw" /\ ~result.success ->
               [ap |-> stopPolling(ap),
                o  |-> reject(o1, IF result.error # "" THEN result.error
                                  ELSE "Authorization failed")]
          [] OTHER ->
               [ap |-> ap, o |-> [o1 EXCEPT !.pend = @ + 1]]

\* a token check of call i is answered
IpcFetchAnswer(i, result) ==
    /\ rops[i].flight > 0
    /\ LET p == IpcAnswer(activePolling, rops[i], result)
       IN  /\ activePolling' = p.ap
           /\ rops' = [rops EXCEPT ![i] = p.o]

\* ------------------------------------------------------- timer-only poller
\* (GitHubAuthService.pollForToken of electron/ipc/defaultProfileHandlers.js
\* and of the first class of src/services/githubAuth.ts: an interval and a
\* 15 minute timer local to the call, no activePolling record.  The field
\* timer of the call is TRUE until the 15 minute timer has fired; the
\* interval is cleared by that timer and by nothing else.)

\* poll() of the timer-only variant, to the await of fetch
TimerOnlyPoll(o) == [o EXCEPT !.flight = @ + 1, !.reqs = @ + 1]

\* poll() of the timer-only variant, from the answer of fetch to its return
TimerOnlyAnswer(o, r) ==
    LET o1 == [o EXCEPT !.flight = @ - 1]
    IN  CASE r.kind = "token" -> resolve(o1, r.token)
          [] r.kind = "fail" -> reject(o1, "network")
          [] r.kind = "error" /\ r.error # "authorization_pending" ->
               reject(o1, "Authorization failed")
          [] OTHER -> o1

\* pollForToken(dc) of the timer-only variant, to the return of the promise
TimerOnlyPollForToken(dc) ==
    /\ Len(rops) < MaxOps
    /\ rops' = Append(rops, TimerOnlyPoll(NewPolling(dc)))
    /\ UNCHANGED activePolling

\* the interval of call i fires
TimerOnlyTick(i) ==
    /\ rops[i].timer
    /\ rops[i].ticks < WallClockLimit
    /\ rops' = [rops EXCEPT ![i] = TimerOnlyPoll([@ EXCEPT !.ticks = @ + 1])]
    /\ UNCHANGED activePolling

\* a token request of call i is answered
TimerOnlyFetchAnswer(i, r) ==
    /\ rops[i].flight > 0
    /\ rops' = [rops EXCEPT ![i] = TimerOnlyAnswer(@, r)]
    /\ UNCHANGED activePolling

\* the 15 minute timer of call i fires: clearInterval and reject
TimerOnlyTimeout(i) ==
    /\ rops[i].timer
    /\ rops[i].ticks >= WallClockLimit - 1
    /\ rops' = [rops EXCEPT ![i] =
                  reject([@ EXCEPT !.timer = FALSE], "Authorization timeout")]
    /\ UNCHANGED activePolling

\* ------------------------------------------------------- specifications

MainInit ==
    /\ interval \in Intervals
    /\ mainWindow \in BOOLEAN
    /\ currentPolling = 0
    /\ ops = <<>>
    /\ evQ = <<>>

Init ==
    /\ MainInit
    /\ storage = NoItem
    /\ StoreInit
    /\ UIInit
    /\ PollInit
    /\ CodecInit
    /\ HandlersReady

\* the provider answers authorization_pending at most MaxPending times
PendingAllowed(i, r) ==
    (r.kind \in {"none"} \/ (r.kind = "error" /\ r.error = "authorization_pending"))
        => ops[i].pollCount <= MaxPending

\* what the main process leaves alone
RendererIdle == UNCHANGED <<storage, storeVars, uiVars, pollVars, io, regVars>>

\* what the status-based store leaves alone
MainIdle == UNCHANGED <<envVars, mainVars, uiVars, pollVars, io, regVars>>

\* the main process, driven by any sequence of IPC calls
Next ==
    \/ \E dc \in DeviceCodes : StartBackgroundPolling(dc) /\ RendererIdle
    \/ StopPolling /\ RendererIdle
    \/ \E i \in OpIds, r \in TokenResponses :
          PendingAllowed(i, r) /\ TokenResponse(i, r, 0) /\ RendererIdle
    \/ \E i \in OpIds, v \in ValidateResponses : ValidateResponse(i, v, 0) /\ RendererIdle
    \/ \E i \in OpIds : PollTimer(i) /\ RendererIdle

Spec == Init /\ [][Next]_vars

\* an answer that carries neither access_token nor error
Nones(o) == o.reqs - 1 - o.pend

\* one operation that may poll up to the attempt ceiling; every answer
\* arrives within the tick
NextSolo ==
    \/ \E dc \in DeviceCodes : ops = <<>> /\ StartBackgroundPolling(dc) /\ RendererIdle
    \/ StopPolling /\ RendererIdle
    \/ \E i \in OpIds, r \in TokenResponses :
          /\ r.kind = "none" => Nones(ops[i]) < MaxNone
          /\ TokenResponse(i, r, 0)
          /\ RendererIdle
    \/ \E i \in OpIds, v \in ValidateResponses : ValidateResponse(i, v, 0) /\ RendererIdle
    \/ \E i \in OpIds : PollTimer(i) /\ RendererIdle

SpecSolo == Init /\ [][NextSolo]_vars

Pending == [kind |-> "error", token |-> NoToken, error |-> "authorization_pending"]

\* one operation, never stopped, whose user never answers, on a slow network
NextSlow ==
    \/ \E dc \in DeviceCodes : ops = <<>> /\ StartBackgroundPolling(dc) /\ RendererIdle
    \/ \E i \in OpIds, d \in 0..MaxLatency : TokenResponse(i, Pending, d) /\ RendererIdle
    \/ \E i \in OpIds : PollTimer(i) /\ RendererIdle

SpecSlow == Init /\ [][NextSlow]_vars

\* the status-based store; a token of an earlier session may be stored
InitStore ==
    /\ interval = 1 /\ mainWindow = TRUE
    /\ currentPolling = 0 /\ ops = <<>> /\ evQ = <<>>
    /\ storage \in {NoItem} \cup {encryptToken(t) : t \in Tokens}
    /\ StoreInit
    /\ UIInit
    /\ PollInit
    /\ CodecInit
    /\ HandlersReady

NextStore ==
    \/ connectGitHub /\ MainIdle
    \/ cancelGitHubAuth /\ MainIdle
    \/ disconnect /\ MainIdle
    \/ checkTokenValidity /\ MainIdle
    \/ closeDialog /\ MainIdle
    \/ \E c \in DOMAIN calls, r \in DeviceResults : DeviceFlowAnswer(c, r) /\ MainIdle
    \/ \E c \in DOMAIN calls, r \in PollResults : PollAnswer(c, r) /\ MainIdle
    \/ \E c \in DOMAIN calls, r \in ValidateResults : ValidateAnswer(c, r) /\ MainIdle

SpecStore == InitStore /\ [][NextStore]_vars

\* the event-based store with the main process behind the IPC channel
InitUI ==
    /\ interval = 1 /\ mainWindow \in BOOLEAN
    /\ currentPolling = 0 /\ ops = <<>> /\ evQ = <<>>
    /\ storage = NoItem
    /\ StoreInit
    /\ UIInit
    /\ PollInit
    /\ CodecInit
    /\ HandlersReady

NextUI ==
    \/ startAuthentication /\ UNCHANGED <<envVars, mainVars, storeVars, pollVars, io, regVars>>
    \/ \E a \in DOMAIN attempts, r \in DeviceResults, dc \in DeviceCodes :
          InitiateAnswer(a, r, dc) /\ UNCHANGED <<envVars, mainVars, storeVars, pollVars, io, regVars>>
    \/ cancelAuthentication /\ UNCHANGED <<envVars, mainVars, storeVars, pollVars, io, regVars>>
    \/ logout /\ UNCHANGED <<envVars, mainVars, storeVars, pollVars, io, regVars>>
    \/ clearError /\ UNCHANGED <<envVars, mainVars, storeVars, pollVars, io, regVars>>
    \/ MainReceive /\ UNCHANGED <<storeVars, pollVars, io, regVars>>
    \/ RendererReceive /\ UNCHANGED <<storeVars, pollVars, io, regVars>>
    \/ \E i \in OpIds, r \in TokenResponses :
          PendingAllowed(i, r) /\ TokenResponse(i, r, 0) /\ RendererIdle
    \/ \E i \in OpIds, v \in ValidateResponses : ValidateResponse(i, v, 0) /\ RendererIdle
    \/ \E i \in OpIds : PollTimer(i) /\ RendererIdle

SpecUI == InitUI /\ [][NextUI]_vars

\* the token store alone, over whatever localStorage holds at the start
InitCodec ==
    /\ interval = 1 /\ mainWindow = TRUE
    /\ currentPolling = 0 /\ ops = <<>> /\ evQ = <<>>
    /\ storage \in StoredItems
    /\ StoreInit
    /\ UIInit
    /\ PollInit
    /\ CodecInit
    /\ HandlersReady

CodecOnly == UNCHANGED <<envVars, mainVars, storeVars, uiVars, pollVars, regVars>>

NextCodec ==
    \/ \E t \in TokenStrings : storeToken(t) /\ CodecOnly
    \/ removeToken /\ CodecOnly
    \/ ReadStoredToken /\ CodecOnly

SpecCodec == InitCodec /\ [][NextCodec]_vars

\* the two stores, one of them used in a run: the status-based store, or the
\* calls of the event-based store without the polling behind them
StoreUntouched ==
    /\ calls = <<>>
    /\ st = [isConnected |-> FALSE, isLoading |-> TRUE, status |-> "loading",
             user |-> "", error |-> ""]

UIUntouched == attempts = <<>> /\ cmdQ = <<>> /\ ~cancelled

UIOnly == UNCHANGED <<envVars, mainVars, storeVars, pollVars, io, regVars>>

NextConnect ==
    \/ UIUntouched /\ connectGitHub /\ MainIdle
    \/ UIUntouched /\ cancelGitHubAuth /\ MainIdle
    \/ UIUntouched /\ disconnect /\ MainIdle
    \/ UIUntouched /\ checkTokenValidity /\ MainIdle
    \/ UIUntouched /\ closeDialog /\ MainIdle
    \/ \E c \in DOMAIN calls, r \in DeviceResults : DeviceFlowAnswer(c, r) /\ MainIdle
    \/ \E c \in DOMAIN calls, r \in PollResults : PollAnswer(c, r) /\ MainIdle
    \/ \E c \in DOMAIN calls, r \in ValidateResults : ValidateAnswer(c, r) /\ MainIdle
    \/ StoreUntouched /\ startAuthentication /\ UIOnly
    \/ \E a \in DOMAIN attempts, r \in DeviceResults, dc \in DeviceCodes :
          InitiateAnswer(a, r, dc) /\ UIOnly
    \/ StoreUntouched /\ cancelAuthentication /\ UIOnly
    \/ StoreUntouched /\ logout /\ UIOnly
    \/ StoreUntouched /\ clearError /\ UIOnly

SpecConnect == InitStore /\ [][NextConnect]_vars

\* one attempt of the event-based store whose polling operation may run to
\* the attempt ceiling
NextSession ==
    \/ attempts = <<>> /\ startAuthentication /\ UIOnly
    \/ \E a \in DOMAIN attempts, r \in DeviceResults, dc \in DeviceCodes :
          InitiateAnswer(a, r, dc) /\ UIOnly
    \/ cancelAuthentication /\ UIOnly
    \/ MainReceive /\ UNCHANGED <<storeVars, pollVars, io, regVars>>
    \/ RendererReceive /\ UNCHANGED <<storeVars, pollVars, io, regVars>>
    \/ \E i \in OpIds, r \in TokenResponses :
          /\ r.kind = "none" => Nones(ops[i]) < MaxNone
          /\ TokenResponse(i, r, 0)
          /\ RendererIdle
    \/ \E i \in OpIds, v \in ValidateResponses : ValidateResponse(i, v, 0) /\ RendererIdle
    \/ \E i \in OpIds : PollTimer(i) /\ RendererIdle

SpecSession == InitUI /\ [][NextSession]_vars

\* the same, where every request is answered, every message is received and
\* every timer that is due fires
SessionFairness ==
    /\ WF_vars(\E a \in DOMAIN attempts, r \in DeviceResults, dc \in DeviceCodes :
                  InitiateAnswer(a, r, dc) /\ UIOnly)
    /\ WF_vars(MainReceive /\ UNCHANGED <<storeVars, pollVars, io, regVars>>)
    /\ WF_vars(RendererReceive /\ UNCHANGED <<storeVars, pollVars, io, regVars>>)
    /\ WF_vars(\E i \in OpIds, r \in TokenResponses :
                  /\ r.kind = "none" => Nones(ops[i]) < MaxNone
                  /\ TokenResponse(i, r, 0)
                  /\ RendererIdle)
    /\ WF_vars(\E i \in OpIds, v \in ValidateResponses :
                  ValidateResponse(i, v, 0) /\ RendererIdle)
    /\ WF_vars(\E i \in OpIds : PollTimer(i) /\ RendererIdle)

SpecSessionLive == InitUI /\ [][NextSession]_vars /\ SessionFairness

\* the main process from its start: the handlers are registered, any number
\* of times, and serve the calls of operations whose user never answers
InitRegister ==
    /\ MainInit
    /\ storage = NoItem
    /\ StoreInit
    /\ UIInit
    /\ PollInit
    /\ CodecInit
    /\ Unregistered

RegisterIdle == UNCHANGED <<envVars, mainVars, storage, storeVars, uiVars, pollVars, io>>

NextRegister ==
    \/ RegisterCall /\ RegisterIdle
    \/ RegisterChannel /\ RegisterIdle
    \/ RegisterDone /\ RegisterIdle
    \/ \E dc \in DeviceCodes :
          /\ Invocable("github:start-background-polling")
          /\ StartBackgroundPolling(dc) /\ RendererIdle
    \/ Invocable("github:stop-polling") /\ StopPolling /\ RendererIdle
    \/ \E i \in OpIds :
          /\ regPc = 0 /\ ops[i].pollCount <= MaxPending
          /\ TokenResponse(i, Pending, 0) /\ RendererIdle
    \/ \E i \in OpIds : regPc = 0 /\ PollTimer(i) /\ RendererIdle

SpecRegister == InitRegister /\ [][NextRegister]_vars

\* the two pollers, one of them used in a run: the background poller with one
\* operation, or the renderer poller with any sequence of calls
InitPoll ==
    /\ interval = 1 /\ mainWindow \in BOOLEAN
    /\ currentPolling = 0 /\ ops = <<>> /\ evQ = <<>>
    /\ storage = NoItem
    /\ StoreInit
    /\ UIInit
    /\ PollInit
    /\ CodecInit
    /\ HandlersReady

\* what the renderer poller leaves alone
PollIdle == UNCHANGED <<envVars, mainVars, storage, storeVars, uiVars, io, regVars>>

\* an answer after which poll() keeps polling
KeepsPolling(h) ==
    /\ h.status # 429
    /\ h.body.kind = "none"
         \/ (h.body.kind = "error" /\ h.body.error = "authorization_pending")

RECURSIVE InFlight(_)
\* the token requests of the calls 1..k that are not answered yet
InFlight(k) == IF k = 0 THEN 0 ELSE rops[k].flight + InFlight(k - 1)

RECURSIVE Continued(_)
\* the answers the calls 1..k got after which they kept polling
Continued(k) == IF k = 0 THEN 0 ELSE rops[k].pend + Continued(k - 1)

NextPoll ==
    \/ \E dc \in DeviceCodes :
          ops = <<>> /\ rops = <<>> /\ StartBackgroundPolling(dc) /\ RendererIdle
    \/ ops # <<>> /\ StopPolling /\ RendererIdle
    \/ \E i \in OpIds, h \in HttpResponses :
          PendingAllowed(i, h.body) /\ HttpResponse(i, h) /\ RendererIdle
    \/ \E i \in OpIds, v \in ValidateResponses : ValidateResponse(i, v, 0) /\ RendererIdle
    \/ \E i \in OpIds : PollTimer(i) /\ RendererIdle
    \/ \E dc \in DeviceCodes :
          /\ ops = <<>> /\ InFlight(Len(rops)) < MaxFlight
          /\ pollForToken(dc)
          /\ PollIdle
    \/ rops # <<>> /\ CallStopPolling /\ PollIdle
    \/ \E i \in DOMAIN rops :
          InFlight(Len(rops)) < MaxFlight /\ IntervalTick(i) /\ PollIdle
    \/ \E i \in DOMAIN rops, h \in HttpResponses :
          /\ KeepsPolling(h) => Continued(Len(rops)) < MaxPending
          /\ FetchAnswer(i, h)
          /\ PollIdle
    \/ \E i \in DOMAIN rops : OverallTimeout(i) /\ PollIdle

SpecPoll == InitPoll /\ [][NextPoll]_vars

\* the renderer poller that polls through github:poll-for-token; the interval
\* may fire while at most MaxFlight token checks are unanswered
NextIpc ==
    \/ \E dc \in DeviceCodes :
          InFlight(Len(rops)) <= MaxFlight /\ pollForToken(dc) /\ PollIdle
    \/ rops # <<>> /\ CallStopPolling /\ PollIdle
    \/ \E i \in DOMAIN rops :
          InFlight(Len(rops)) <= MaxFlight /\ IntervalTick(i) /\ PollIdle
    \/ \E i \in DOMAIN rops, result \in IpcResults :
          IpcFetchAnswer(i, result) /\ PollIdle
    \/ \E i \in DOMAIN rops : OverallTimeout(i) /\ PollIdle

SpecIpc == InitPoll /\ [][NextIpc]_vars

\* the renderer poller of unnamed/part_004 on a network of any latency: the
\* interval of a call may fire while at most MaxFlight of its token requests
\* are unanswered
NextRenderer ==
    \/ \E dc \in DeviceCodes : pollForToken(dc) /\ PollIdle
    \/ rops # <<>> /\ CallStopPolling /\ PollIdle
    \/ \E i \in DOMAIN rops :
          rops[i].flight <= MaxFlight /\ IntervalTick(i) /\ PollIdle
    \/ \E i \in DOMAIN rops, h \in HttpResponses :
          /\ KeepsPolling(h) => Continued(Len(rops)) < MaxPending
          /\ FetchAnswer(i, h)
          /\ PollIdle
    \/ \E i \in DOMAIN rops : OverallTimeout(i) /\ PollIdle

SpecRenderer == InitPoll /\ [][NextRenderer]_vars

\* the same, where every token request is answered in the end and every
\* timer that is due fires
RendererFairness ==
    /\ \A i \in 1..MaxOps :
          /\ WF_vars(i \in DOMAIN rops /\ rops[i].flight <= MaxFlight
                        /\ IntervalTick(i) /\ PollIdle)
          /\ WF_vars(i \in DOMAIN rops /\ OverallTimeout(i) /\ PollIdle)
          /\ WF_vars(\E h \in HttpResponses :
                        /\ i \in DOMAIN rops
                        /\ KeepsPolling(h) => Continued(Len(rops)) < MaxPending
                        /\ FetchAnswer(i, h)
                        /\ PollIdle)

SpecRendererLive == InitPoll /\ [][NextRenderer]_vars /\ RendererFairness

\* one call of the timer-only poller, followed for its 15 minutes
NextTimerOnly ==
    \/ \E dc \in DeviceCodes : rops = <<>> /\ TimerOnlyPollForToken(dc) /\ PollIdle
    \/ \E i \in DOMAIN rops :
          rops[i].flight < MaxFlight /\ TimerOnlyTick(i) /\ PollIdle
    \/ \E i \in DOMAIN rops, r \in TokenResponses :
          TimerOnlyFetchAnswer(i, r) /\ PollIdle
    \/ \E i \in DOMAIN rops : TimerOnlyTimeout(i) /\ PollIdle

SpecTimerOnly == InitPoll /\ [][NextTimerOnly]_vars

\* ---------------------------------------------------------------- claims

Types(o) == [k \in 1..Len(o.events) |-> o.events[k].type]

\* C1: once the stop flag of an operation is set, no github-auth-success and
\* no github-auth-error is sent for that operation any more, whatever the
\* answer of the token request in flight is.
C1_NoEventAfterStop ==
    [][\A i \in OpIds : ops[i].stop => ops'[i].events = ops[i].events]_vars

\* C2: every operation but the newest has its stop flag set (so at most one
\* is un-stopped), the newest has issued its first token request only with
\* the flag of its predecessor set, and an operation whose flag is set issues
\* no token request.
C2_SingleActive ==
    /\ [](\A i \in OpIds : i < Len(ops) => ops[i].stop)
    /\ [](Cardinality({i \in OpIds : ~ops[i].stop}) <= 1)
    /\ [][\A i \in OpIds : ops[i].stop => ops'[i].reqs = ops[i].reqs]_vars

C2_Witness ==
    /\ Len(ops) >= 2
    /\ ops[1].stop /\ ops[1].pc = "done" /\ ops[1].lastResp = "authorization_pending"
    /\ ~ops[2].stop /\ ops[2].reqs = 2

\* C3: connectGitHub is single-flight: at most one call of connectGitHub is
\* unfinished at a time, so at most one device-code request and at most one
\* token poll of connectGitHub are outstanding.
C3_SingleFlight ==
    /\ Cardinality({c \in DOMAIN calls :
                      calls[c].kind = "connect" /\ calls[c].pc # "done"}) <= 1
    /\ Cardinality({c \in DOMAIN calls : calls[c].pc = "device"}) <= 1
    /\ Cardinality({c \in DOMAIN calls : calls[c].pc = "poll"}) <= 1

\* C4: an operation sends at most one of github-auth-success,
\* github-auth-error and github-auth-timeout, and once it has sent one it
\* issues no token request and arms no timer any more.
C4_OneTerminal ==
    /\ [](\A i \in OpIds :
            /\ Len(ops[i].events) <= 1
            /\ \A k \in 1..Len(ops[i].events) : ops[i].events[k].type \in TerminalEvents
            /\ Len(ops[i].events) = 1 => ops[i].pc = "done")
    /\ [][\A i \in OpIds : ops[i].pc = "done" =>
            /\ ops'[i].pc = "done"
            /\ ops'[i].reqs = ops[i].reqs
            /\ ops'[i].events = ops[i].events]_vars

C4_Witness ==
    \E i \in OpIds :
        /\ Types(ops[i]) = <<"github-auth-timeout">>
        /\ ops[i].pc = "done" /\ ops[i].reqs = maxPolls

\* every message the operation has sent has been received by the renderer
Delivered(i) == \A k \in DOMAIN evQ : evQ[k].op # i

\* C5: a polling lifecycle that has ended has given the UI listeners exactly
\* one event among auth-success, auth-error, auth-timeout and auth-cancelled.
C5_ExactlyOneEvent ==
    \A i \in OpIds : (ops[i].pc = "done" /\ Delivered(i)) => uiCount[i] = 1

\* the operation got only authorization_pending answers and then a token
\* that validated
PendingThenToken(o) ==
    o.pc = "done" /\ o.lastResp = "token" /\ o.valid /\ Nones(o) = 0

SuccessOf(o) == <<AuthEvent("github-auth-success", o.tok, "alice", "")>>

OnlyPending(o) ==
    o.pc = "done" /\ ~o.stop /\ o.lastResp = "authorization_pending" /\ Nones(o) = 0

C8_WallClock ==
    \A i \in OpIds : ops[i].elapsed > WallClockLimit =>
        ops[i].pc = "done" /\ Types(ops[i]) = <<"github-auth-timeout">>

\* C9: two consecutive token requests of an operation are at least the
\* advertised interval of the session apart.
C9_Spacing ==
    \A i \in OpIds : ops[i].gap # -1 => ops[i].gap >= interval

\* C10: an answer slow_down does not end the operation.
C10_SlowDownContinues ==
    \A i \in OpIds : (ops[i].lastResp = "slow_down" /\ ~ops[i].stop) =>
        ops[i].pc # "done" /\ ops[i].events = <<>>

\* C11: in the renderer poller, the step that handles an HTTP 429 answer
\* empties activePolling (interval cleared, device code undefined) and, when
\* the promise of the call is still pending, rejects it with the rate-limit
\* error; a call whose promise is settled issues no token request.
C11_RateLimited ==
    [][/\ \A i \in DOMAIN rops, h \in HttpResponses :
             (h.status = 429 /\ FetchAnswer(i, h)) =>
                 /\ activePolling' = NoPolling
                 /\ rops'[i].promise # "pending"
                 /\ rops[i].promise = "pending" =>
                       /\ rops'[i].promise = "rejected"
                       /\ rops'[i].reason = RateLimitMessage
       /\ \A i \in DOMAIN rops :
             rops[i].promise # "pending" => rops'[i].reqs = rops[i].reqs]_vars

\* a 429 answer on a later poll of a call
C11_Witness ==
    \E i \in DOMAIN rops :
        /\ rops[i].reqs >= 2 /\ rops[i].pend >= 1
        /\ rops[i].promise = "rejected" /\ rops[i].reason = RateLimitMessage

\* C12: a background operation whose last answer had status 429 has ended,
\* whatever the body was, and, when it has a window, its last message is a
\* github-auth-error.
C12_RateLimitTerminal ==
    \A i \in OpIds : ops[i].status = 429 =>
        /\ ops[i].pc = "done"
        /\ ops[i].mainWindow =>
              /\ ops[i].events # <<>>
              /\ ops[i].events[Len(ops[i].events)].type = "github-auth-error"

\* an answer with an error code other than authorization_pending and
\* slow_down, a rejected fetch, or a body that does not parse
HardErrors ==
    {h \in HttpResponses :
        \/ h.body.kind = "fail"
        \/ h.body.kind = "error"
             /\ h.body.error \notin {"authorization_pending", "slow_down"}}

\* an ended background operation and a settled pollForToken call issue no
\* token request
EndedIsQuiet ==
    /\ \A i \in OpIds : ops[i].pc = "done" => ops'[i].reqs = ops[i].reqs
    /\ \A i \in DOMAIN rops :
          rops[i].promise # "pending" => rops'[i].reqs = rops[i].reqs

\* the step of pollForToken call i that handles h rejects its pending promise
RejectsOnce(i, h) ==
    (FetchAnswer(i, h) /\ rops[i].promise = "pending") =>
        rops'[i].promise = "rejected"

C14_StoppedIsSilent ==
    [][/\ StopPolling =>
             /\ currentPolling' = 0
             /\ currentPolling # 0 => ops'[currentPolling].stop
       /\ \A i \in OpIds :
             ops[i].stop => /\ ops'[i].stop
                            /\ ops'[i].reqs = ops[i].reqs
       /\ CallStopPolling => activePolling' = NoPolling
       /\ \A i \in DOMAIN rops :
             activePolling.intervalId # i =>
                 /\ activePolling'.intervalId # i
                 /\ rops'[i].reqs = rops[i].reqs]_vars

\* an operation stopped while its timer was pending: the timer has fired,
\* seen the flag and ended the operation after its single request
C14_Witness ==
    \E i \in OpIds :
        /\ ops[i].stop
        /\ ops[i].pc = "done"
        /\ ops[i].lastResp = "authorization_pending"
        /\ ops[i].reqs = 1
        /\ ops[i].elapsed = PollDelay
        /\ currentPolling = 0


\* C15: whenever the status-based store has status 'connected', its user is
\* non-null and a credential is present in local storage.
C15_ConnectedHasCredential ==
    st.status = "connected" =>
        /\ st.user # ""
        /\ storage # NoItem

\* C16: whenever the status-based store has status 'invalid' or
\* 'disconnected', no credential is present in local storage.
C16_NoCredentialUnlessConnected ==
    st.status \in {"invalid", "disconnected"} => storage = NoItem

\* C17: a token is written to local storage only after it has been validated.
\* As long as the only call ever made is a connectGitHub that has not been
\* given its token yet, nothing has been validated, so no step taken from
\* such a state writes a credential.
C17_WriteAfterValidation ==
    [][(/\ Len(calls) = 1
        /\ calls[1].kind = "connect"
        /\ calls[1].pc \in {"device", "poll"})
          => (storage' = storage \/ storage' = NoItem)]_vars

\* C19: checkTokenValidity ends in one of three outcomes, isLoading false in
\* each: without a stored credential the status is 'disconnected'; after the
\* answer of the validation either the credential is removed, the status is
\* 'invalid' and the user null, or the status is 'connected' with a user and
\* no error.
C19_ThreeOutcomes ==
    [][/\ (checkTokenValidity /\ Falsy(getStoredToken(storage))) =>
             /\ st'.status = "disconnected"
             /\ ~st'.isLoading
       /\ \A c \in DOMAIN calls :
             (calls[c].pc = "validate" /\ calls'[c].pc = "done") =>
                 /\ ~st'.isLoading
                 /\ \/ /\ storage' = NoItem
                       /\ st'.status = "invalid"
                       /\ st'.user = ""
                    \/ /\ st'.status = "connected"
                       /\ st'.user # ""
                       /\ st'.error = ""]_vars


\* the success message of operation i is the one message added to the channel
SuccessQueued(i) ==
    /\ Len(evQ') = Len(evQ) + 1
    /\ LET m == evQ'[Len(evQ')]
       IN  /\ m.op = i
           /\ m.ev.type = "github-auth-success"
           /\ m.ev.token = ops[i].tok
           /\ m.ev.user \in Users

\* the store after the listeners were given the success message m
SuccessStored(m) ==
    /\ getStoredToken(storage') = Some(m.ev.token)
    /\ est'.isAuthenticated
    /\ est'.token = m.ev.token
    /\ est'.user = m.ev.user
    /\ ~est'.isConnecting
    /\ est'.error = ""

LoggedOut ==
    [isAuthenticated |-> FALSE, user |-> "", token |-> NoToken,
     isConnecting |-> FALSE, deviceFlow |-> "", error |-> ""]

\* C20: logout() removes the stored credential, resets the state to
\* unauthenticated and sends github:stop-polling; when the main process
\* handles a stop, the stop flag of the current operation is set and the
\* pointer to the current operation is cleared.
C20_Logout ==
    [][/\ logout =>
             /\ storage' = NoItem
             /\ est' = LoggedOut
             /\ cmdQ' = Append(cmdQ, [cmd |-> "stop", deviceCode |-> ""])
       /\ (cmdQ # <<>> /\ cmdQ' = Tail(cmdQ) /\ Head(cmdQ).cmd = "stop") =>
             /\ currentPolling' = 0
             /\ currentPolling # 0 => ops'[currentPolling].stop]_vars

\* logged out after a success while a second operation had a token request
\* in flight: that operation is stopped and no operation is current
C20_Witness ==
    /\ est = LoggedOut
    /\ storage = NoItem
    /\ cmdQ = <<>> /\ evQ = <<>>
    /\ currentPolling = 0
    /\ \E i, j \in OpIds :
          /\ ops[j].valid /\ ops[j].mainWindow
          /\ ops[i].stop /\ ops[i].pc = "fetch"


\* C21: after cancelAuthentication, as long as startAuthentication is not
\* called again, error is null and isConnecting is false, whatever message
\* of the main process the store is given.
C21_CancelIsNoError ==
    cancelled => (est.error = "" /\ ~est.isConnecting)


\* the step ends the connectGitHub call c with a failure: its catch block has
\* run, or the validation of the token it obtained did not succeed
ConnectFails(c) ==
    /\ calls[c].kind = "connect"
    /\ calls[c].pc # "done" /\ calls'[c].pc = "done"
    /\ \/ calls'[c].toast = "GitHub Connection Failed"
       \/ calls[c].pc = "validate" /\ st'.status # "connected"

\* C22: when connectGitHub fails at any step, the state afterwards has status
\* 'disconnected' or 'invalid', isLoading false and an error message, and the
\* credential the attempt obtained is not in local storage.
C22_FailureState ==
    [][\A c \in DOMAIN calls :
          ConnectFails(c) =>
              /\ st'.status \in {"disconnected", "invalid"}
              /\ ~st'.isLoading
              /\ st'.error # ""
              /\ calls[c].pc = "validate" => storage' = NoItem]_vars


\* the step ends the startAuthentication call a with a failure: no command
\* to start polling was sent
StartFails(a) ==
    /\ attempts[a].pc = "device" /\ attempts'[a].pc = "done"
    /\ cmdQ' = cmdQ

\* C23: every failing connectGitHub or startAuthentication call returns and
\* leaves a state with an error message and the loading (connecting) flag
\* false.
C23_FailuresRecovered ==
    [][/\ \A c \in DOMAIN calls :
             ConnectFails(c) => (st'.error # "" /\ ~st'.isLoading)
       /\ \A a \in DOMAIN attempts :
             StartFails(a) => (est'.error # "" /\ ~est'.isConnecting)]_vars

\* a connectGitHub call whose IPC call was rejected has returned: the message
\* of the rejection is the error of the state
C23_Witness ==
    \E c \in DOMAIN calls :
        /\ calls[c].kind = "connect" /\ calls[c].pc = "done"
        /\ calls[c].toast = "GitHub Connection Failed"
        /\ st.error = "ipc failure" /\ ~st.isLoading


\* C24: getStoredToken() called after storeToken(t) returns exactly t, for
\* every string t, the empty one and those that contain the salt included.
C24_RoundTrip ==
    (io.op = "get" /\ io.written.some) => io.read = io.written

\* a stored value no storeToken call produces: no base64, or a text that
\* does not end with the salt
Corrupted(item) ==
    \/ item.enc = "bad"
    \/ /\ item.enc = "b64"
       /\ item.text = <<>> \/ item.text[Len(item.text)] # Salt

\* C25: getStoredToken() over a corrupted value returns none, whether or not
\* the value is decodable base64.
C25_CorruptIsNone ==
    (io.op = "get" /\ Corrupted(storage)) => io.read = None


\* C26: a startAuthentication call made while an attempt is connecting issues
\* no device-code request (no call waits for initiateDeviceFlow because of
\* it) and sends no command that starts a polling operation.
C26_Coalesced ==
    [][(est.isConnecting /\ startAuthentication) =>
          /\ attempts' = attempts
          /\ cmdQ' = cmdQ]_vars


\* C27: in the poller that polls through github:poll-for-token, a poll the
\* provider answered with authorization_pending neither resolves nor rejects
\* the promise of pollForToken and does not stop the interval.
C27_PendingContinues ==
    [][\A i \in DOMAIN rops :
          IpcFetchAnswer(i, PollForTokenHandler(Pending)) =>
              /\ rops'[i].promise = rops[i].promise
              /\ activePolling' = activePolling]_vars


\* C28: in the timer-only pollForToken, once the promise is resolved or
\* rejected the polling is over: the call issues no further token request.
C28_SettledIsQuiet ==
    [][\A i \in DOMAIN rops :
          rops[i].promise # "pending" => rops'[i].reqs = rops[i].reqs]_vars


\* C29: a polling operation of the main process that has ended, by success,
\* hard error, cancellation or the attempt ceiling, is not the operation
\* currentPolling refers to.
C29_EndedIsDestroyed ==
    \A i \in OpIds : ops[i].pc = "done" => currentPolling # i

\* C30: the device-flow session of the event-based store is set to null when
\* the attempt ends by success, by cancel or by timeout.
C30_SessionDiscarded ==
    [][/\ (evQ # <<>> /\ evQ' = Tail(evQ)
             /\ Head(evQ).ev.type \in {"github-auth-success", "github-auth-timeout"})
          => est'.deviceFlow = ""
       /\ cancelAuthentication => est'.deviceFlow = ""]_vars


\* C31: registerGitHubHandlers is idempotent: however many calls are made,
\* no channel ever has more than one handler, the latch is set only when every
\* channel has its handler, and once a call has returned every channel has
\* exactly one handler.
C31_RegisteredOnce ==
    /\ \A c \in ChannelNames : handlers[c] <= 1
    /\ handlersRegistered => \A c \in ChannelNames : handlers[c] = 1
    /\ (regPc = 0 /\ regCalls > 0) =>
          (handlersRegistered /\ \A c \in ChannelNames : handlers[c] = 1)

\* a second call has returned
C31_Witness ==
    /\ regCalls >= 2 /\ regPc = 0
    /\ \A c \in ChannelNames : handlers[c] = 1

\* C32: after logout() of the event-based store, as long as
\* startAuthentication is not called again, local storage holds no credential
\* and isAuthenticated is false, whatever messages of an operation that was
\* polling at the moment of the logout still arrive.
C32_LogoutIsFinal ==
    loggedOut => (storage = NoItem /\ ~est.isAuthenticated)

\* C33: in the status-based store, once cancelGitHubAuth or disconnect has
\* been called during a connect attempt and connectGitHub is not called
\* again, no step of the abandoned connectGitHub call writes a credential to
\* local storage or sets status to 'connected'.
C33_AbandonedIsInert ==
    [][\A c \in DOMAIN calls :
          (abandoned /\ calls[c].kind = "connect" /\ calls'[c].pc # calls[c].pc) =>
              /\ storage' \in {storage, NoItem}
              /\ st'.status = "connected" => st.status = "connected"]_vars

\* C34: the 15 minute timer armed by one pollForToken call acts only on that
\* call: when it fires it leaves the polling of every other call as it is,
\* whatever the device codes of the calls are.
C34_TimerIsOwn ==
    [][\A i \in DOMAIN rops :
          OverallTimeout(i) =>
              (activePolling.intervalId \in {0, i} \/ activePolling' = activePolling)]_vars

\* C35: the renderer pollForToken never has more than one token request of
\* a call in flight: no poll is issued before the answer to the previous poll
\* of the call has been handled, whatever the latency of the answer.
C35_OneInFlight ==
    \A i \in DOMAIN rops : rops[i].flight <= 1

\* C36: every promise returned by the renderer pollForToken is settled in the
\* end when every token request is answered in the end, also when
\* stopPolling() is called during the call or a later call supersedes it.
C36_Settles ==
    \A i \in 1..MaxOps :
        (i \in DOMAIN rops) ~> (i \in DOMAIN rops /\ rops[i].promise # "pending")

\* C37: every attempt started by startAuthentication leaves the connecting
\* state in the end (isConnecting becomes false) when every request is
\* answered in the end, also when there is no main window at the moment the
\* background polling starts.
C37_LeavesConnecting ==
    est.isConnecting ~> ~est.isConnecting

\* C38: connectGitHub reports success (isConnected = true in the device
\* dialog and the 'GitHub Connected' toast) only when the validation of the
\* new token succeeded: at the moment of the report status is 'connected'
\* and a credential is stored.
C38_SuccessIsValidated ==
    [][\A c \in DOMAIN calls :
          (calls[c].toast # "GitHub Connected" /\ calls'[c].toast = "GitHub Connected") =>
              /\ dialog'.isConnected
              /\ st'.status = "connected"
              /\ storage' # NoItem]_vars

\* C39: the latch of connectGitHub is released on every exit path: whenever
\* no call of connectGitHub is executing, isConnectingRef is false, so that
\* the next call is accepted, after a success and after any failure.
C39_LatchReleased ==
    ~Connecting => ~isConnectingRef

\* one call has ended in a failure and one in a success, none is executing
C39_Witness ==
    /\ ~Connecting /\ ~isConnectingRef
    /\ \E c, d \in DOMAIN calls :
          /\ calls[c].kind = "connect" /\ calls[c].toast = "GitHub Connection Failed"
          /\ calls[d].kind = "connect" /\ calls[d].toast = "GitHub Connected"

====
